---- MODULE Spec2Model ----
(***************************************************************************)
(* Export pipeline of deploy_model.py (_main_): a straight-line script     *)
(* that rebuilds the YOLOv2 Keras graph, loads weights, freezes,           *)
(* quantizes, imports the result into a fresh graph and saves it as a      *)
(* SavedModel with a serving signature.  Every call of _main_ is one       *)
(* action; pc is the position of the script.                               *)
(***************************************************************************)
EXTENDS Integers, Sequences, FiniteSets, TLC

VARIABLES
  args,               \* parsed command-line flags (line 54)
  env,                \* what the run finds outside itself: cfg anchors, faults
  pc,                 \* position of _main_
  error,              \* the exception that ended the run, "" when none
  trail,              \* stage events of the run, in order
  anchors,            \* anchors returned by parse_config (line 55)
  export_path,        \* os.path.join(output_dir, version) (line 57)
  learning_phase,     \* Keras learning phase (line 66)
  k_session,          \* the session of `with K.get_session() as sess` (line 65)
  default_graph,      \* the graph Keras builds the model in (sess.graph, line 100)
  model,              \* yolov2_darknet19(...) (line 71)
  outputs,            \* dict name -> identity tensor (lines 85-88)
  key_order,          \* iteration order of the dict `outputs`
  collection,         \* tf collection 'inference_op' (line 91)
  output_node_names,  \* ','.join(outputs.keys()) (line 93)
  frozen_graph_def,   \* line 98
  quantized_graph,    \* line 112
  export_graph,       \* the tf.Graph() made default at line 122
  config,             \* tf.ConfigProto of line 133
  sess,               \* the session of `with session.Session(config) as sess` (line 139)
  builder,            \* SavedModelBuilder (line 140)
  detection_signature,\* line 146
  disk,               \* paths that exist under the output locations
  written,            \* paths this run created
  saved_model,        \* content of export_path/saved_model.pb
  summary,            \* tf.summary.FileWriter (line 161)
  stdout,             \* messages printed (lines 164-166)
  det,                \* a call of yolov2_detector: its locals and position
  reroute_call        \* a call of the Reroute layer on its own

vars == <<args, env, pc, error, trail, anchors, export_path, learning_phase,
          k_session, default_graph, model, outputs, key_order, collection,
          output_node_names, frozen_graph_def, quantized_graph, export_graph,
          config, sess, builder, detection_signature, disk, written,
          saved_model, summary, stdout, det, reroute_call>>

\* the variables of the export script
scriptVars == <<args, env, pc, error, trail, anchors, export_path,
                learning_phase, k_session, default_graph, model, outputs,
                key_order, collection, output_node_names, frozen_graph_def,
                quantized_graph, export_graph, config, sess, builder,
                detection_signature, disk, written, saved_model, summary,
                stdout>>

-----------------------------------------------------------------------------
(* Flag values and the world the run starts in *)

\* argparse default of --weight_file (line 40): Python's None, not a path
None == "<None>"

\* paths are sequences of components; "/" as first component = absolute
DefaultOutputDir == <<"/", "tmp", "yolov2">>
DefaultVersion == <<"1">>
OutputDirs == {DefaultOutputDir, <<"out">>}
Versions == {DefaultVersion, <<"graph_def">>}

\* the weight paths tried, and what the file system holds for them
RegularFiles == {"good.h5", "bad.h5"}
Directories == {"weights_dir"}
CompatibleFiles == {"good.h5"}
WeightFiles == {None, "missing.h5", "weights_dir", "bad.h5", "good.h5"}

\* iou and threshold in hundredths (defaults 0.6 and 0.0, lines 43-47)
DefaultIou == 60
DefaultThreshold == 0
Ious == {DefaultIou, 50}
Thresholds == {DefaultThreshold, 30}

\* cfg anchors: a usable set of (w, h) pairs, or none at all
AnchorSets == {<< <<1, 2>>, <<3, 4>> >>, << >>}

\* the external call that fails in this run, if any
Faults == {"none", "build", "load", "freeze", "quantize", "import",
           "builder", "save", "trace"}

MaxBoxes == 100

-----------------------------------------------------------------------------
(* Paths *)

\* os.path.join(a, b): an absolute b discards a
PathJoin(a, b) ==
  IF Len(b) > 0 /\ b[1] = "/" THEN b ELSE a \o b

\* os.path.exists in place of os.path.isfile: a directory passes
IsFileOrDir(p) == p \in RegularFiles \cup Directories

\* os.path.isfile(p) for a string p
IsFile(p) == p \in RegularFiles

TraceDir == PathJoin(args.output_dir, <<"graph_def">>)

-----------------------------------------------------------------------------
(* Strings that are joined and split: a string is a sequence of tokens, a   *)
(* token being a name or the separator                                      *)

Comma == ","

\* ''.join(names): the separator left out
JoinNoSeparator(names, sep) == names

RECURSIVE Join(_, _)
\* sep.join(names)
Join(names, sep) ==
  IF Len(names) = 0 THEN << >>
  ELSE IF Len(names) = 1 THEN <<names[1]>>
  ELSE <<names[1], sep>> \o Join(Tail(names), sep)

RECURSIVE SplitFrom(_, _, _)
\* pieces of str between separators; cur is the piece being read
SplitFrom(str, sep, cur) ==
  IF Len(str) = 0 THEN <<cur>>
  ELSE IF str[1] = sep THEN <<cur>> \o SplitFrom(Tail(str), sep, << >>)
  ELSE SplitFrom(Tail(str), sep, Append(cur, str[1]))

\* str.split(sep): the pieces, each a string
Split(str, sep) == SplitFrom(str, sep, << >>)

\* the node name a piece spells: a single name token, or no node's name
NodeName(piece) == IF Len(piece) = 1 THEN piece[1] ELSE "<invalid>"

NodeNames(pieces) == {NodeName(pieces[i]) : i \in 1..Len(pieces)}

-----------------------------------------------------------------------------
(* Graphs *)

OutputKeys == {"detection_boxes", "detection_scores", "detection_classes"}

\* the three tensors of model.outputs, in the order lines 86-88 index them
ModelOutputOps == <<"boxes", "scores", "classes">>

\* nodes the Keras model puts into the default graph
ModelNodes == {"image_input", "weights", "darknet19", "detector",
               "boxes", "scores", "classes", "keras_learning_phase"}

VariableNodes == {"weights"}

\* inputs of each node
NodeDeps(n) ==
  CASE n = "detection_boxes" -> {"boxes"}
    [] n = "detection_scores" -> {"scores"}
    [] n = "detection_classes" -> {"classes"}
    [] n \in {"boxes", "scores", "classes"} -> {"detector"}
    [] n = "detector" -> {"darknet19", "weights"}
    [] n = "darknet19" -> {"image_input", "weights"}
    [] OTHER -> {}

RECURSIVE Reach(_, _)
\* nodes reachable from the set `from` within `nodes`
Reach(from, nodes) ==
  LET next == (from \cup UNION {NodeDeps(n) : n \in from}) \cap nodes
  IN IF next = from THEN from ELSE Reach(next, nodes)

\* a graph: its nodes, which of them are variables, the values constants
\* carry, and the rewrites applied to it
NoGraph == [nodes |-> {}, variables |-> {}, values |-> "none", applied |-> << >>]

Tensor(g, op) == [graph |-> g, op |-> op, idx |-> 0]
NoTensor == Tensor("none", "none")


\* graph_util.convert_variables_to_constants: the sub-graph the outputs need,
\* every variable replaced by a constant holding the session's value
ConvertVariablesToConstants(session, input_graph_def, names) ==
  [nodes |-> Reach(names, input_graph_def.nodes),
   variables |-> {},
   values |-> session.values,
   applied |-> input_graph_def.applied]

\* the list with the foldings written ahead of the weight transforms
transformsFoldFirst ==
  <<"add_default_attributes", "fold_batch_norms", "fold_old_batch_norms",
    "quantize_weights", "round_weights">>

\* the transform list of lines 108-110
transforms == <<"add_default_attributes", "quantize_weights", "round_weights",
                "fold_batch_norms", "fold_old_batch_norms">>

RECURSIVE ApplyTransforms(_, _)
\* the transforms of ts applied to g one after the other, first to last
ApplyTransforms(g, ts) ==
  IF Len(ts) = 0 THEN g
  ELSE ApplyTransforms([g EXCEPT !.applied = Append(@, ts[1])], Tail(ts))

\* TransformGraph(input_graph_def, inputs, outputs, transforms)
TransformGraph(input_graph_def, ins, outs, ts) ==
  ApplyTransforms(input_graph_def, ts)

\* the optimizers appended to the RewriterConfig (lines 126-129)
RewriteOptimizers == <<"pruning", "constfold", "layout">>

NoConfig == [optimize_tensor_layout |-> FALSE, optimizers |-> << >>,
             infer_shapes |-> FALSE]

-----------------------------------------------------------------------------
(* Signature *)

SignatureInputKey == "inputs"
PredictImagesKey == "predict_images"
\* signature_constants.DEFAULT_SERVING_SIGNATURE_DEF_KEY
DefaultServingKey == "serving_default"
\* signature_constants.PREDICT_METHOD_NAME
PredictMethodName == "tensorflow/serving/predict"
\* tf.saved_model.tag_constants.SERVING
ServingTag == "serve"

EmptyDict == [k \in {} |-> NoTensor]

\* tf.saved_model.utils.build_tensor_info: the tensor's name, not the tensor
BuildTensorInfo(t) == [name |-> <<t.op, t.idx>>]
EmptyInfos == [k \in {} |-> BuildTensorInfo(NoTensor)]

\* the infos built from a list of values taken in iteration order and bound
\* to the keys taken in a fixed order
TensorInfoOutputsByPosition(order, outs, acc) ==
  LET fixed == <<"detection_boxes", "detection_scores", "detection_classes">>
  IN [k \in {fixed[i] : i \in 1..Len(order)} |->
        BuildTensorInfo(outs[order[CHOOSE i \in 1..Len(order) : fixed[i] = k]])]

\* the loop stopping one item early
TensorInfoOutputsDropLast(order, outs, acc) ==
  [k \in {order[i] : i \in 1..(Len(order) - 1)} |-> BuildTensorInfo(outs[k])]

RECURSIVE TensorInfoOutputs(_, _, _)
\* the loop of lines 143-144 over outputs.items(), in iteration order
TensorInfoOutputs(order, outs, acc) ==
  IF Len(order) = 0 THEN acc
  ELSE TensorInfoOutputs(Tail(order), outs,
         (order[1] :> BuildTensorInfo(outs[order[1]])) @@ acc)

\* build_signature_def(inputs, outputs, method_name) (lines 146-150)
BuildSignatureDef(ins, outs, method) ==
  [inputs |-> ins, outputs |-> outs, method_name |-> method]

NoSignature == BuildSignatureDef(EmptyInfos, EmptyInfos, "")

\* the map with the named key only
SignatureDefMapNamedOnly(sig) == (PredictImagesKey :> sig)

\* the signature_def_map of lines 154-156
SignatureDefMap(sig) ==
  (PredictImagesKey :> sig) @@ (DefaultServingKey :> sig)

NoMetaGraph == [graph |-> NoGraph, tags |-> {},
                signature_def_map |-> [k \in {} |-> NoSignature]]

-----------------------------------------------------------------------------
(* The detection head: yolov2_detector and the layers it calls.  A feature  *)
(* tensor is its shape (batch, height, width, channels) and, along the      *)
(* channel axis, the runs of channels with the layer each run comes from    *)

\* line 20: Reroute(block_size=2)
BlockSize == 2
\* lines 15, 16, 24: conv_block(_, 1024, (3, 3))
DetectFilters == 1024
\* line 19: conv_block(layer, 64, (1, 1))
FineGrainedFilters == 64

MaxBatch == 2
MaxBlockSize == 3
MaxSide == 6
MaxChannels == 2

\* spatial sides and channel counts of the backbone maps tried
CoarseSides == {1, 2, 13}
FineSides == {2, 3, 4, 26}
CoarseChannels == {1024, 512}
FineChannels == {512, 64}

Feature(shape, channels) == [shape |-> shape, channels |-> channels]
NoFeature == Feature(<< >>, << >>)

\* a backbone map: one run of channels named after it
BackboneMap(name, b, h, w, c) == Feature(<<b, h, w, c>>, << <<name, c>> >>)

\* conv_block(x, filters, kernel, name): same batch and spatial size,
\* `filters` channels
ConvBlock(x, filters, kernel, name) ==
  Feature(<<x.shape[1], x.shape[2], x.shape[3], filters>>, << <<name, filters>> >>)

\* whether the Reroute layer accepts the shape: block_size divides both
\* spatial sides
RerouteAccepts(block_size, shape) ==
  shape[2] % block_size = 0 /\ shape[3] % block_size = 0

\* channel count with the block area counted once per side only
RerouteShapeLinear(block_size, shape) ==
  <<shape[1], shape[2] \div block_size, shape[3] \div block_size,
    shape[4] * block_size>>

\* shape the Reroute layer yields: each block_size x block_size tile moved
\* to the channel axis
RerouteShape(block_size, shape) ==
  <<shape[1], shape[2] \div block_size, shape[3] \div block_size,
    shape[4] * block_size * block_size>>

\* Reroute(block_size, name)(x)
Reroute(block_size, name, x) ==
  Feature(RerouteShape(block_size, x.shape),
          << <<name, RerouteShape(block_size, x.shape)[4]>> >>)

\* a concatenate that takes inputs of any spatial size
ConcatenateAcceptsAny(a, b) == TRUE

\* keras concatenate builds only on inputs that agree on every axis but the
\* channel axis
ConcatenateAccepts(a, b) ==
  \A i \in 1..3 : a.shape[i] = b.shape[i]

\* concatenate([a, b], name): channels of a, then channels of b
Concatenate(a, b, name) ==
  Feature(<<a.shape[1], a.shape[2], a.shape[3], a.shape[4] + b.shape[4]>>,
          a.channels \o b.channels)

\* no call of yolov2_detector under way
NoDetectorCall ==
  [pc |-> "idle", feature_map |-> NoFeature, fine_grained_layers |-> << >>,
   layer |-> NoFeature, x |-> NoFeature, x2 |-> NoFeature,
   connected_layer |-> NoFeature, rerouted_layer |-> NoFeature,
   result |-> NoFeature, error |-> ""]

\* no call of the Reroute layer under way
NoRerouteCall ==
  [pc |-> "idle", block_size |-> 0, input |-> NoFeature,
   output |-> NoFeature, error |-> ""]

-----------------------------------------------------------------------------
(* Stages of the run *)

StageOrder == <<"Loaded", "Frozen", "Quantized", "Optimized", "Packaged">>

Started(s) == <<s, "start">>
Completed(s) == <<s, "done">>

NoModel == [built |-> FALSE, is_training |-> FALSE, anchors |-> << >>,
            iou |-> 0, scores_threshold |-> 0, max_boxes |-> 0,
            learning_phase |-> -1, inputs |-> << >>, outputs |-> << >>]

NoSession == [state |-> "none", values |-> "none"]
NoExportSession == [state |-> "none", config |-> NoConfig]
NoBuilder == [export_dir |-> << >>, meta_graph |-> NoMetaGraph, added |-> FALSE]
NoSummary == [logdir |-> << >>, open |-> FALSE, graph |-> NoGraph]

\* leaving a `with session` block closes the session
Close(s) == IF s.state = "open" THEN [s EXCEPT !.state = "closed"] ELSE s

\* the state _main_ starts in, for some flags and some outside world
ScriptStart ==
  /\ args \in [output_dir : OutputDirs, version : Versions,
               weight_file : WeightFiles, iou : Ious, threshold : Thresholds]
  /\ env \in [anchors : AnchorSets, fault : Faults, version_dir_exists : BOOLEAN]
  /\ pc = "parse"
  /\ error = ""
  /\ trail = << >>
  /\ anchors = << >>
  /\ export_path = << >>
  /\ learning_phase = -1
  /\ k_session = NoSession
  /\ default_graph = NoGraph
  /\ model = NoModel
  /\ outputs = EmptyDict
  /\ key_order = << >>
  /\ collection = << >>
  /\ output_node_names = << >>
  /\ frozen_graph_def = NoGraph
  /\ quantized_graph = NoGraph
  /\ export_graph = NoGraph
  /\ config = NoConfig
  /\ sess = NoExportSession
  /\ builder = NoBuilder
  /\ detection_signature = NoSignature
  /\ disk = IF env.version_dir_exists
              THEN {PathJoin(args.output_dir, args.version)} ELSE {}
  /\ written = {}
  /\ saved_model = NoMetaGraph
  /\ summary = NoSummary
  /\ stdout = << >>

Init ==
  /\ ScriptStart
  /\ det = NoDetectorCall
  /\ reroute_call = NoRerouteCall

\* everything an exception leaves as it is
raiseFrame == <<det, reroute_call, args, env, trail, anchors, export_path, learning_phase,
                default_graph, model, outputs, key_order, collection,
                output_node_names, frozen_graph_def, quantized_graph,
                export_graph, config, builder, detection_signature, disk,
                written, saved_model, summary, stdout>>

\* sessions opened without `with`: an exception leaves them open
RaiseLeavesSessionsOpen(err) ==
  /\ pc' = "failed"
  /\ error' = err
  /\ UNCHANGED <<k_session, sess>>
  /\ UNCHANGED raiseFrame

\* an exception leaves _main_: the enclosing `with` blocks close their
\* sessions (lines 65, 139) and the run ends
Raise(err) ==
  /\ pc' = "failed"
  /\ error' = err
  /\ k_session' = Close(k_session)
  /\ sess' = Close(sess)
  /\ UNCHANGED raiseFrame

\* lines 54-57: parse the flags and the config, compute the export path
ParseConfig ==
  /\ pc = "parse"
  /\ anchors' = env.anchors
  /\ export_path' = PathJoin(args.output_dir, args.version)
  /\ pc' = "check"
  /\ UNCHANGED <<det, reroute_call, args, env, error, trail, learning_phase, k_session,
                 default_graph, model, outputs, key_order, collection,
                 output_node_names, frozen_graph_def, quantized_graph,
                 export_graph, config, sess, builder, detection_signature,
                 disk, written, saved_model, summary, stdout>>

\* the check with its `not` dropped: a regular file is refused
CheckWeightFileInverted ==
  /\ pc = "check"
  /\ IF args.weight_file = None THEN Raise("TypeError")
     ELSE IF IsFile(args.weight_file) THEN Raise("IOError")
     ELSE /\ pc' = "get_session"
          /\ UNCHANGED <<error, k_session, sess>>
          /\ UNCHANGED raiseFrame

\* lines 59-60: os.path.isfile raises TypeError on None; a path that is not
\* a regular file raises IOError("Weight file is invalid")
CheckWeightFile ==
  /\ pc = "check"
  /\ IF args.weight_file = None THEN Raise("TypeError")
     ELSE IF ~IsFile(args.weight_file) THEN Raise("IOError")
     ELSE /\ pc' = "get_session"
          /\ UNCHANGED <<error, k_session, sess>>
          /\ UNCHANGED raiseFrame

\* the session entered with the learning phase left as it was
GetSessionPhaseUnset ==
  /\ pc = "get_session"
  /\ k_session' = [state |-> "open", values |-> "none"]
  /\ trail' = Append(trail, Started("Loaded"))
  /\ pc' = "build"
  /\ UNCHANGED <<det, reroute_call, args, env, error, anchors, export_path,
                 learning_phase, default_graph, model,
                 outputs, key_order, collection, output_node_names,
                 frozen_graph_def, quantized_graph, export_graph, config,
                 sess, builder, detection_signature, disk, written,
                 saved_model, summary, stdout>>

\* lines 65-66: enter the Keras session, switch the learning phase to 0
GetSession ==
  /\ pc = "get_session"
  /\ k_session' = [state |-> "open", values |-> "none"]
  /\ learning_phase' = 0
  /\ trail' = Append(trail, Started("Loaded"))
  /\ pc' = "build"
  /\ UNCHANGED <<det, reroute_call, args, env, error, anchors, export_path, default_graph, model,
                 outputs, key_order, collection, output_node_names,
                 frozen_graph_def, quantized_graph, export_graph, config,
                 sess, builder, detection_signature, disk, written,
                 saved_model, summary, stdout>>

\* lines 71-77: build the Keras model in the default graph
BuildModel ==
  /\ pc = "build"
  /\ IF env.fault = "build" \/ Len(anchors) = 0 THEN Raise("ShapeError")
     ELSE /\ model' = [built |-> TRUE, is_training |-> FALSE,
                       anchors |-> anchors, iou |-> args.iou,
                       scores_threshold |-> args.threshold,
                       max_boxes |-> MaxBoxes,
                       learning_phase |-> learning_phase,
                       inputs |-> <<Tensor("keras", "image_input")>>,
                       outputs |-> [i \in 1..3 |-> Tensor("keras", ModelOutputOps[i])]]
          /\ default_graph' = [nodes |-> ModelNodes, variables |-> VariableNodes,
                               values |-> "none", applied |-> << >>]
          /\ k_session' = [k_session EXCEPT !.values = "initialized"]
          /\ pc' = "load"
          /\ UNCHANGED <<det, reroute_call, args, env, error, trail, anchors, export_path,
                         learning_phase, outputs, key_order, collection,
                         output_node_names, frozen_graph_def, quantized_graph,
                         export_graph, config, sess, builder,
                         detection_signature, disk, written, saved_model,
                         summary, stdout>>

\* lines 79-80: load the trained weights into the session's variables
LoadWeights ==
  /\ pc = "load"
  /\ IF env.fault = "load" \/ args.weight_file \notin CompatibleFiles
       THEN Raise("WeightLoadError")
     ELSE /\ k_session' = [k_session EXCEPT !.values = "trained"]
          /\ pc' = "name_outputs"
          /\ UNCHANGED <<det, reroute_call, args, env, error, trail, anchors, export_path,
                         learning_phase, default_graph, model, outputs,
                         key_order, collection, output_node_names,
                         frozen_graph_def, quantized_graph, export_graph,
                         config, sess, builder, detection_signature, disk,
                         written, saved_model, summary, stdout>>

\* the orders a dict with the three keys can iterate in
KeyOrders ==
  {o \in [1..3 -> OutputKeys] : \A i, j \in 1..3 : i # j => o[i] # o[j]}

\* the identity tensor lines 86-88 create for key k
IdentityTensor(k) == Tensor("keras", k)

\* lines 85-93: name the three outputs, collect them, join the names
NameOutputs ==
  /\ pc = "name_outputs"
  /\ \E order \in KeyOrders :
       /\ key_order' = order
       /\ collection' = [i \in 1..3 |-> IdentityTensor(order[i])]
       /\ output_node_names' = Join(order, Comma)
  /\ outputs' = [k \in OutputKeys |-> IdentityTensor(k)]
  /\ default_graph' = [default_graph EXCEPT !.nodes = @ \cup OutputKeys]
  /\ trail' = Append(trail, Completed("Loaded"))
  /\ pc' = "freeze"
  /\ UNCHANGED <<det, reroute_call, args, env, error, anchors, export_path, learning_phase,
                 k_session, model, frozen_graph_def, quantized_graph,
                 export_graph, config, sess, builder, detection_signature,
                 disk, written, saved_model, summary, stdout>>

\* the freeze step handing over straight to the import, the transform call
\* left out
FreezeSkipsQuantize ==
  /\ pc = "freeze"
  /\ LET names == NodeNames(Split(output_node_names, Comma))
     IN IF env.fault = "freeze" \/ ~(names \subseteq default_graph.nodes)
          THEN Raise("FreezeError")
        ELSE /\ frozen_graph_def' =
                  ConvertVariablesToConstants(k_session, default_graph, names)
             /\ k_session' = Close(k_session)
             /\ trail' = trail \o <<Started("Frozen"), Completed("Frozen")>>
             /\ pc' = "import"
             /\ UNCHANGED <<det, reroute_call, args, env, error, anchors, export_path,
                            learning_phase, default_graph, model, outputs,
                            key_order, collection, output_node_names,
                            quantized_graph, export_graph, config, sess,
                            builder, detection_signature, disk, written,
                            saved_model, summary, stdout>>

\* lines 98-103 and the end of the `with` block of line 65: freeze the
\* session's graph, then close the session
Freeze ==
  /\ pc = "freeze"
  /\ LET names == NodeNames(Split(output_node_names, Comma))
     IN IF env.fault = "freeze" \/ ~(names \subseteq default_graph.nodes)
          THEN Raise("FreezeError")
        ELSE /\ frozen_graph_def' =
                  ConvertVariablesToConstants(k_session, default_graph, names)
             /\ k_session' = Close(k_session)
             /\ trail' = trail \o <<Started("Frozen"), Completed("Frozen")>>
             /\ pc' = "quantize"
             /\ UNCHANGED <<det, reroute_call, args, env, error, anchors, export_path,
                            learning_phase, default_graph, model, outputs,
                            key_order, collection, output_node_names,
                            quantized_graph, export_graph, config, sess,
                            builder, detection_signature, disk, written,
                            saved_model, summary, stdout>>

\* the transforms run on the frozen graph object itself
QuantizeInPlace ==
  /\ pc = "quantize"
  /\ IF env.fault = "quantize" THEN Raise("TransformError")
     ELSE /\ quantized_graph' =
               TransformGraph(frozen_graph_def, "image_input",
                              NodeNames(Split(output_node_names, Comma)),
                              transforms)
          /\ frozen_graph_def' = quantized_graph'
          /\ trail' = trail \o <<Started("Quantized"), Completed("Quantized")>>
          /\ pc' = "import"
          /\ UNCHANGED <<det, reroute_call, args, env, error, anchors,
                         export_path, learning_phase, k_session,
                         default_graph, model, outputs, key_order, collection,
                         output_node_names, export_graph, config, sess,
                         builder, detection_signature, disk, written,
                         saved_model, summary, stdout>>

\* lines 108-115: run the transform list over the frozen graph
Quantize ==
  /\ pc = "quantize"
  /\ IF env.fault = "quantize" THEN Raise("TransformError")
     ELSE /\ quantized_graph' =
               TransformGraph(frozen_graph_def, "image_input",
                              NodeNames(Split(output_node_names, Comma)),
                              transforms)
          /\ trail' = trail \o <<Started("Quantized"), Completed("Quantized")>>
          /\ pc' = "import"
          /\ UNCHANGED <<det, reroute_call, args, env, error, anchors, export_path,
                         learning_phase, k_session, default_graph, model,
                         outputs, key_order, collection, output_node_names,
                         frozen_graph_def, export_graph, config, sess,
                         builder, detection_signature, disk, written,
                         saved_model, summary, stdout>>

\* lines 122-123: a fresh default graph, the quantized graph imported into it
ImportGraph ==
  /\ pc = "import"
  /\ IF env.fault = "import" THEN Raise("TransformError")
     ELSE /\ export_graph' = quantized_graph
          /\ trail' = Append(trail, Started("Optimized"))
          /\ pc' = "configure"
          /\ UNCHANGED <<det, reroute_call, args, env, error, anchors, export_path,
                         learning_phase, k_session, default_graph, model,
                         outputs, key_order, collection, output_node_names,
                         frozen_graph_def, quantized_graph, config, sess,
                         builder, detection_signature, disk, written,
                         saved_model, summary, stdout>>

\* lines 126-133: the rewrite options go into a session configuration; the
\* graph itself is not rewritten here
Configure ==
  /\ pc = "configure"
  /\ config' = [optimize_tensor_layout |-> TRUE,
                optimizers |-> RewriteOptimizers,
                infer_shapes |-> TRUE]
  /\ trail' = Append(trail, Completed("Optimized"))
  /\ pc' = "open_session"
  /\ UNCHANGED <<det, reroute_call, args, env, error, anchors, export_path, learning_phase,
                 k_session, default_graph, model, outputs, key_order,
                 collection, output_node_names, frozen_graph_def,
                 quantized_graph, export_graph, sess, builder,
                 detection_signature, disk, written, saved_model, summary,
                 stdout>>

\* line 139: the session the bundle is saved from
OpenSession ==
  /\ pc = "open_session"
  /\ sess' = [state |-> "open", config |-> config]
  /\ trail' = Append(trail, Started("Packaged"))
  /\ pc' = "builder"
  /\ UNCHANGED <<det, reroute_call, args, env, error, anchors, export_path, learning_phase,
                 k_session, default_graph, model, outputs, key_order,
                 collection, output_node_names, frozen_graph_def,
                 quantized_graph, export_graph, config, builder,
                 detection_signature, disk, written, saved_model, summary,
                 stdout>>

\* line 140: SavedModelBuilder refuses an existing export directory and
\* creates the directory otherwise
CreateBuilder ==
  /\ pc = "builder"
  /\ IF export_path \in disk THEN Raise("AssertionError")
     ELSE IF env.fault = "builder" THEN Raise("PackagingError")
     ELSE /\ builder' = [export_dir |-> export_path,
                         meta_graph |-> NoMetaGraph, added |-> FALSE]
          /\ disk' = disk \cup {export_path}
          /\ written' = written \cup {export_path}
          /\ pc' = "signature"
          /\ UNCHANGED <<det, reroute_call, args, env, error, trail, anchors, export_path,
                         learning_phase, k_session, default_graph, model,
                         outputs, key_order, collection, output_node_names,
                         frozen_graph_def, quantized_graph, export_graph,
                         config, sess, detection_signature, saved_model,
                         summary, stdout>>

\* lines 141-150: tensor infos of the model input and of the three outputs,
\* bound into the signature
BuildSignature ==
  /\ pc = "signature"
  /\ LET tensor_info_inputs ==
           (SignatureInputKey :> BuildTensorInfo(model.inputs[1]))
         tensor_info_outputs ==
           TensorInfoOutputs(key_order, outputs, EmptyInfos)
     IN detection_signature' =
          BuildSignatureDef(tensor_info_inputs, tensor_info_outputs,
                            PredictMethodName)
  /\ pc' = "add_meta_graph"
  /\ UNCHANGED <<det, reroute_call, args, env, error, trail, anchors, export_path,
                 learning_phase, k_session, default_graph, model, outputs,
                 key_order, collection, output_node_names, frozen_graph_def,
                 quantized_graph, export_graph, config, sess, builder, disk,
                 written, saved_model, summary, stdout>>

\* lines 152-157: the session's graph (the imported one) with the two
\* signature keys
AddMetaGraph ==
  /\ pc = "add_meta_graph"
  /\ builder' = [builder EXCEPT
                   !.meta_graph = [graph |-> export_graph,
                                   tags |-> {ServingTag},
                                   signature_def_map |->
                                     SignatureDefMap(detection_signature)],
                   !.added = TRUE]
  /\ pc' = "save"
  /\ UNCHANGED <<det, reroute_call, args, env, error, trail, anchors, export_path,
                 learning_phase, k_session, default_graph, model, outputs,
                 key_order, collection, output_node_names, frozen_graph_def,
                 quantized_graph, export_graph, config, sess,
                 detection_signature, disk, written, saved_model, summary,
                 stdout>>

SavedModelFile == export_path \o <<"saved_model.pb">>
VariablesDir == export_path \o <<"variables">>
EventsFile == TraceDir \o <<"events.out.tfevents">>

\* the save wrapped in a try/except that swallows the failure
SaveIgnoresFailure ==
  /\ pc = "save"
  /\ IF env.fault # "save"
       THEN /\ saved_model' = builder.meta_graph
            /\ disk' = disk \cup {SavedModelFile, VariablesDir}
            /\ written' = written \cup {SavedModelFile, VariablesDir}
       ELSE UNCHANGED <<saved_model, disk, written>>
  /\ pc' = "trace"
  /\ UNCHANGED <<det, reroute_call, args, env, error, trail, anchors, export_path,
                 learning_phase, k_session, default_graph, model,
                 outputs, key_order, collection, output_node_names,
                 frozen_graph_def, quantized_graph, export_graph,
                 config, sess, builder, detection_signature, summary,
                 stdout>>

\* line 158: write the bundle into the export directory
Save ==
  /\ pc = "save"
  /\ IF env.fault = "save" THEN Raise("PackagingError")
     ELSE /\ saved_model' = builder.meta_graph
          /\ disk' = disk \cup {SavedModelFile, VariablesDir}
          /\ written' = written \cup {SavedModelFile, VariablesDir}
          /\ pc' = "trace"
          /\ UNCHANGED <<det, reroute_call, args, env, error, trail, anchors, export_path,
                         learning_phase, k_session, default_graph, model,
                         outputs, key_order, collection, output_node_names,
                         frozen_graph_def, quantized_graph, export_graph,
                         config, sess, builder, detection_signature, summary,
                         stdout>>

\* lines 161-162 and the end of the `with` blocks of lines 139 and 122:
\* write the graph trace, then close the session
WriteTrace ==
  /\ pc = "trace"
  /\ IF env.fault = "trace" THEN Raise("IOError")
     ELSE /\ summary' = [logdir |-> TraceDir, open |-> TRUE,
                         graph |-> export_graph]
          /\ disk' = disk \cup {TraceDir, EventsFile}
          /\ written' = written \cup {TraceDir, EventsFile}
          /\ sess' = Close(sess)
          /\ trail' = Append(trail, Completed("Packaged"))
          /\ pc' = "print"
          /\ UNCHANGED <<det, reroute_call, args, env, error, anchors, export_path,
                         learning_phase, k_session, default_graph, model,
                         outputs, key_order, collection, output_node_names,
                         frozen_graph_def, quantized_graph, export_graph,
                         config, builder, detection_signature, saved_model,
                         stdout>>

\* lines 164-166: report where the bundle and the trace are
PrintReady ==
  /\ pc = "print"
  /\ stdout' = <<export_path \o <<"saved_model.pb">>, TraceDir>>
  /\ pc' = "done"
  /\ UNCHANGED <<det, reroute_call, args, env, error, trail, anchors, export_path,
                 learning_phase, k_session, default_graph, model, outputs,
                 key_order, collection, output_node_names, frozen_graph_def,
                 quantized_graph, export_graph, config, sess, builder,
                 detection_signature, disk, written, saved_model, summary>>

Next ==
  \/ ParseConfig
  \/ CheckWeightFile
  \/ GetSession
  \/ BuildModel
  \/ LoadWeights
  \/ NameOutputs
  \/ Freeze
  \/ Quantize
  \/ ImportGraph
  \/ Configure
  \/ OpenSession
  \/ CreateBuilder
  \/ BuildSignature
  \/ AddMetaGraph
  \/ Save
  \/ WriteTrace
  \/ PrintReady

Spec == Init /\ [][Next]_vars

\* the script is the only process and always takes its next step
FairSpec == Spec /\ WF_vars(Next)

Terminated == pc \in {"done", "failed"}

TypeOK ==
  /\ pc \in {"parse", "check", "get_session", "build", "load", "name_outputs",
             "freeze", "quantize", "import", "configure", "open_session",
             "builder", "signature", "add_meta_graph", "save", "trace",
             "print", "done", "failed"}
  /\ k_session.state \in {"none", "open", "closed"}
  /\ sess.state \in {"none", "open", "closed"}

-----------------------------------------------------------------------------
(* A call of yolov2_detector(feature_map, fine_grained_layers) *)

\* an exception leaves yolov2_detector
DetectorRaise(err) ==
  det' = [det EXCEPT !.pc = "raised", !.error = err]

\* line 13: the first fine-grained layer
DetectorStart ==
  /\ det.pc = "start"
  /\ det' = [det EXCEPT !.layer = det.fine_grained_layers[1], !.pc = "conv1"]
  /\ UNCHANGED <<scriptVars, reroute_call>>

\* line 15
DetectConv2d_1 ==
  /\ det.pc = "conv1"
  /\ det' = [det EXCEPT
               !.x = ConvBlock(det.feature_map, DetectFilters, <<3, 3>>,
                               "DetectConv2d_1"),
               !.pc = "conv2"]
  /\ UNCHANGED <<scriptVars, reroute_call>>

\* lines 16-17
DetectConv2d_2 ==
  /\ det.pc = "conv2"
  /\ LET x == ConvBlock(det.x, DetectFilters, <<3, 3>>, "DetectConv2d_2")
     IN det' = [det EXCEPT !.x = x, !.x2 = x, !.pc = "fine"]
  /\ UNCHANGED <<scriptVars, reroute_call>>

\* line 19
FineGrained_0 ==
  /\ det.pc = "fine"
  /\ det' = [det EXCEPT
               !.connected_layer =
                  ConvBlock(det.layer, FineGrainedFilters, <<1, 1>>,
                            "FineGrained_0"),
               !.pc = "reroute"]
  /\ UNCHANGED <<scriptVars, reroute_call>>

\* lines 20-21
RerouteLayer ==
  /\ det.pc = "reroute"
  /\ IF RerouteAccepts(BlockSize, det.connected_layer.shape)
       THEN det' = [det EXCEPT
                      !.rerouted_layer =
                         Reroute(BlockSize, "RerouteLayer", det.connected_layer),
                      !.pc = "concat"]
       ELSE DetectorRaise("ShapeError")
  /\ UNCHANGED <<scriptVars, reroute_call>>

\* the concatenation with its two inputs the other way round
ConcatLayerSwapped ==
  /\ det.pc = "concat"
  /\ IF ConcatenateAccepts(det.rerouted_layer, det.x2)
       THEN det' = [det EXCEPT
                      !.x = Concatenate(det.x2, det.rerouted_layer, "ConcatLayer"),
                      !.pc = "conv3"]
       ELSE DetectorRaise("ShapeError")
  /\ UNCHANGED <<scriptVars, reroute_call>>

\* line 23
ConcatLayer ==
  /\ det.pc = "concat"
  /\ IF ConcatenateAccepts(det.rerouted_layer, det.x2)
       THEN det' = [det EXCEPT
                      !.x = Concatenate(det.rerouted_layer, det.x2, "ConcatLayer"),
                      !.pc = "conv3"]
       ELSE DetectorRaise("ShapeError")
  /\ UNCHANGED <<scriptVars, reroute_call>>

\* the head returning the concatenation itself, the last block left out
DetectConv2d_3Skipped ==
  /\ det.pc = "conv3"
  /\ det' = [det EXCEPT !.pc = "return"]
  /\ UNCHANGED <<scriptVars, reroute_call>>

\* line 24
DetectConv2d_3 ==
  /\ det.pc = "conv3"
  /\ det' = [det EXCEPT
               !.x = ConvBlock(det.x, DetectFilters, <<3, 3>>, "DetectConv2d_3"),
               !.pc = "return"]
  /\ UNCHANGED <<scriptVars, reroute_call>>

\* line 26
DetectorReturn ==
  /\ det.pc = "return"
  /\ det' = [det EXCEPT !.result = det.x, !.pc = "returned"]
  /\ UNCHANGED <<scriptVars, reroute_call>>

\* the script at rest with the default flags while a layer is called
ScriptAtRest ==
  /\ ScriptStart
  /\ args = [output_dir |-> DefaultOutputDir, version |-> DefaultVersion,
             weight_file |-> None, iou |-> DefaultIou,
             threshold |-> DefaultThreshold]
  /\ env = [anchors |-> << >>, fault |-> "none", version_dir_exists |-> FALSE]

\* a call of yolov2_detector on some coarse map and some fine-grained map
DetectorInit ==
  /\ ScriptAtRest
  /\ reroute_call = NoRerouteCall
  /\ \E b \in 1..MaxBatch, h \in CoarseSides, w \in CoarseSides,
        c \in CoarseChannels, fh \in FineSides, fw \in FineSides,
        fc \in FineChannels :
       det = [NoDetectorCall EXCEPT
                !.pc = "start",
                !.feature_map = BackboneMap("coarse", b, h, w, c),
                !.fine_grained_layers = <<BackboneMap("fine", b, fh, fw, fc)>>]

DetectorNext ==
  \/ DetectorStart
  \/ DetectConv2d_1
  \/ DetectConv2d_2
  \/ FineGrained_0
  \/ RerouteLayer
  \/ ConcatLayer
  \/ DetectConv2d_3
  \/ DetectorReturn

DetectorSpec == DetectorInit /\ [][DetectorNext]_vars

-----------------------------------------------------------------------------
(* A call of the Reroute layer on its own *)

\* Reroute(block_size)(input): the reorganized tensor, or ShapeError
CallReroute ==
  /\ reroute_call.pc = "call"
  /\ IF RerouteAccepts(reroute_call.block_size, reroute_call.input.shape)
       THEN reroute_call' =
              [reroute_call EXCEPT
                 !.output = Reroute(reroute_call.block_size, "RerouteLayer",
                                    reroute_call.input),
                 !.pc = "returned"]
       ELSE reroute_call' =
              [reroute_call EXCEPT !.error = "ShapeError", !.pc = "raised"]
  /\ UNCHANGED <<scriptVars, det>>

RerouteInit ==
  /\ ScriptAtRest
  /\ det = NoDetectorCall
  /\ \E bs \in 1..MaxBlockSize, b \in 1..MaxBatch, h \in 1..MaxSide,
        w \in 1..MaxSide, c \in 1..MaxChannels :
       reroute_call = [NoRerouteCall EXCEPT
                         !.pc = "call",
                         !.block_size = bs,
                         !.input = BackboneMap("input", b, h, w, c)]

RerouteNext == CallReroute

RerouteSpec == RerouteInit /\ [][RerouteNext]_vars

-----------------------------------------------------------------------------
(* Properties *)

Range(f) == {f[i] : i \in DOMAIN f}

IsPrefix(s, t) ==
  /\ Len(s) <= Len(t)
  /\ \A i \in 1..Len(s) : s[i] = t[i]

\* the stage events of a complete run
StageEvents ==
  [i \in 1..10 |-> IF i % 2 = 1 THEN Started(StageOrder[(i + 1) \div 2])
                   ELSE Completed(StageOrder[i \div 2])]

\* C1: the stage events of a run are, at every moment, an initial part of
\* start Loaded, end Loaded, start Frozen, ..., end Packaged (no stage
\* skipped, repeated or re-entered), and a stage's product exists exactly
\* when the stage has completed
C1_StagesInOrder ==
  /\ IsPrefix(trail, StageEvents)
  /\ (frozen_graph_def # NoGraph) <=> (Completed("Frozen") \in Range(trail))
  /\ (quantized_graph # NoGraph) <=> (Completed("Quantized") \in Range(trail))
  /\ (export_graph # NoGraph) <=> (Started("Optimized") \in Range(trail))
  /\ (config # NoConfig) <=> (Completed("Optimized") \in Range(trail))
  /\ (builder # NoBuilder) => (Started("Packaged") \in Range(trail))
  /\ (pc = "done") => (trail = StageEvents)

C1_Witness == pc = "done" /\ trail = StageEvents

\* a run whose inputs are valid and in which no external call fails
ValidRun ==
  /\ args.weight_file \in CompatibleFiles
  /\ Len(env.anchors) > 0
  /\ env.fault = "none"
  /\ ~env.version_dir_exists

\* the run has ended in Packaged with the three named outputs and the one
\* named input in the saved signature
PackagedWithNames ==
  /\ pc = "done"
  /\ Completed("Packaged") \in Range(trail)
  /\ \A key \in DOMAIN saved_model.signature_def_map :
       LET sig == saved_model.signature_def_map[key]
       IN /\ DOMAIN sig.outputs =
               {"detection_boxes", "detection_scores", "detection_classes"}
          /\ Cardinality(DOMAIN sig.outputs) = 3
          /\ DOMAIN sig.inputs = {"inputs"}
  /\ DOMAIN saved_model.signature_def_map # {}

\* C2: a run with a valid weight file and valid anchors in which no stage
\* fails terminates, in Packaged, with exactly the 3 named outputs and the
\* 1 named input
C2_ValidRunPackages == (pc = "parse" /\ ValidRun) ~> PackagedWithNames

C2_Witness == ValidRun /\ PackagedWithNames

\* C3: whatever the flags, the signature built and the signatures saved
\* have the input key set {inputs} and the output key set
\* {detection_boxes, detection_scores, detection_classes}
C3_SignatureKeySets ==
  /\ (pc \in {"add_meta_graph", "save", "trace", "print", "done"}) =>
       /\ DOMAIN detection_signature.inputs = {"inputs"}
       /\ DOMAIN detection_signature.outputs =
            {"detection_boxes", "detection_scores", "detection_classes"}
  /\ \A key \in DOMAIN saved_model.signature_def_map :
       /\ DOMAIN saved_model.signature_def_map[key].inputs = {"inputs"}
       /\ DOMAIN saved_model.signature_def_map[key].outputs =
            {"detection_boxes", "detection_scores", "detection_classes"}

C3_Witness ==
  /\ pc = "done"
  /\ args.iou # DefaultIou
  /\ args.threshold # DefaultThreshold
  /\ DOMAIN saved_model.signature_def_map # {}
  /\ DOMAIN detection_signature.outputs = OutputKeys

\* the weight_file flag names something that is not a regular file
NotARegularFile == args.weight_file \in {"missing.h5", "weights_dir"}

\* C4: when weight_file names a path that is not a regular file, the run
\* can only end failed, with the IOError of the weight-file check, and at
\* no moment has a session been entered, a graph been frozen or quantized,
\* or anything been written
C4_BadPathFailsEarly ==
  NotARegularFile =>
    /\ pc \in {"parse", "check", "failed"}
    /\ (pc = "failed") => (error = "IOError")
    /\ k_session = NoSession
    /\ frozen_graph_def = NoGraph /\ quantized_graph = NoGraph
    /\ trail = << >>
    /\ written = {}
    /\ summary = NoSummary /\ saved_model = NoMetaGraph

C4_Witness ==
  /\ pc = "failed"
  /\ args.weight_file = "weights_dir"
  /\ error = "IOError"
  /\ written = {}

\* C5: with the weight_file flag left at its default the run fails with the
\* error of an invalid path, before the session is entered, the model built
\* or weights loaded
C5_MissingFlagSameError ==
  (args.weight_file = None /\ Terminated) =>
    /\ pc = "failed"
    /\ error = "IOError"
    /\ k_session = NoSession
    /\ model = NoModel

\* C6: the meta graph added to the builder, and the one saved, register
\* exactly the keys predict_images and the default serving key, both bound
\* to the signature built at lines 146-150
C6_TwoKeysOneSignature ==
  /\ builder.added =>
       /\ DOMAIN builder.meta_graph.signature_def_map =
            {"predict_images", "serving_default"}
       /\ builder.meta_graph.signature_def_map["predict_images"] =
            builder.meta_graph.signature_def_map["serving_default"]
       /\ builder.meta_graph.signature_def_map["predict_images"] =
            detection_signature
       /\ detection_signature.method_name = PredictMethodName
  /\ (saved_model # NoMetaGraph) => (saved_model = builder.meta_graph /\ builder.added)

C6_Witness ==
  /\ pc = "done"
  /\ saved_model # NoMetaGraph
  /\ Cardinality(DOMAIN saved_model.signature_def_map) = 2

\* position of transform t in the sequence ts (0 when absent)
IndexOf(t, ts) ==
  IF t \in Range(ts) THEN CHOOSE i \in 1..Len(ts) : ts[i] = t ELSE 0

\* C7: the quantized graph is the frozen graph with exactly the five
\* transforms applied in the order add_default_attributes,
\* quantize_weights, round_weights, fold_batch_norms, fold_old_batch_norms
C7_TransformOrder ==
  (quantized_graph # NoGraph) =>
    /\ quantized_graph.applied =
         frozen_graph_def.applied \o
           <<"add_default_attributes", "quantize_weights", "round_weights",
             "fold_batch_norms", "fold_old_batch_norms">>
    /\ \A w \in {"quantize_weights", "round_weights"} :
         \A f \in {"fold_batch_norms", "fold_old_batch_norms"} :
           /\ IndexOf(w, quantized_graph.applied) > 0
           /\ IndexOf(w, quantized_graph.applied)
                < IndexOf(f, quantized_graph.applied)
    /\ quantized_graph.nodes = frozen_graph_def.nodes

C7_Witness ==
  /\ pc = "import"
  /\ Len(quantized_graph.applied) = 5

\* C8: the graph saved into the version directory has had pruning,
\* constant folding and layout assignment applied to it
C8_SavedGraphOptimized ==
  (saved_model # NoMetaGraph) =>
    \A o \in {"pruning", "constfold", "layout"} :
      o \in Range(saved_model.graph.applied)

\* C9: a session is open only inside its `with` block, and in every
\* terminal state, failed or not, neither session is open
C9_SessionsReleased ==
  /\ Terminated => (k_session.state # "open" /\ sess.state # "open")
  /\ (k_session.state = "open") =>
       (pc \in {"build", "load", "name_outputs", "freeze"})
  /\ (sess.state = "open") =>
       (pc \in {"builder", "signature", "add_meta_graph", "save", "trace"})
  /\ (pc \in {"parse", "check"}) => (k_session.state = "none")

C9_Witness ==
  /\ pc = "failed"
  /\ env.fault = "trace"
  /\ k_session.state = "closed"
  /\ sess.state = "closed"

\* the bundle is on disk whole: graph with its constant payload, signature
\* metadata, and the files of the version directory
CompleteBundle ==
  /\ saved_model.graph # NoGraph
  /\ saved_model.graph.values = "trained"
  /\ saved_model.graph.variables = {}
  /\ DOMAIN saved_model.signature_def_map # {}
  /\ {export_path, SavedModelFile, VariablesDir} \subseteq disk

\* C10: a failed run has an error and takes no further step, a run that
\* ends without failure has written the complete bundle, and a state with
\* no further step is one of the two
C10_FailOrCompleteBundle ==
  /\ (pc = "failed") => (error # "" /\ ~ENABLED Next)
  /\ (error # "") => (pc = "failed")
  /\ (pc = "done") => (error = "" /\ CompleteBundle /\ ~ENABLED Next)
  /\ (~ENABLED Next) => Terminated

C10_Witness ==
  /\ pc = "failed"
  /\ env.fault = "save"
  /\ error = "PackagingError"
  /\ saved_model = NoMetaGraph

\* C11: a returned Reroute call had block_size dividing both spatial sides
\* and yields (batch, height/block_size, width/block_size,
\* channels*block_size^2); a call where block_size does not divide a side
\* raises ShapeError and yields no tensor
C11_RerouteShapeOrError ==
  LET bs == reroute_call.block_size
      in == reroute_call.input.shape
      out == reroute_call.output.shape
  IN /\ (reroute_call.pc = "returned") =>
          /\ in[2] % bs = 0 /\ in[3] % bs = 0
          /\ out[1] = in[1]
          /\ out[2] * bs = in[2]
          /\ out[3] * bs = in[3]
          /\ out[4] = in[4] * bs * bs
          /\ reroute_call.error = ""
     /\ (reroute_call.pc = "raised") =>
          /\ in[2] % bs # 0 \/ in[3] % bs # 0
          /\ reroute_call.error = "ShapeError"
          /\ reroute_call.output = NoFeature

C11_Witness ==
  /\ reroute_call.pc = "returned"
  /\ reroute_call.block_size = 3
  /\ reroute_call.input.shape[2] = 6
  /\ reroute_call.output.shape[4] = 9 * reroute_call.input.shape[4]

\* C12 as stated: the tensor the head returns has 1024 + 64*block_size^2
\* (1280) channels
C12_ReturnedChannels1280 ==
  (det.pc = "returned") => (det.result.shape[4] = 1024 + 64 * 2 * 2)

\* C12, amended: the concatenation inside the head has 1024 + 64*2^2 = 1280
\* channels, and the tensor the head returns, after the last block, has 1024
C12_ConcatChannels1280 ==
  /\ (det.pc = "conv3") => (det.x.shape[4] = 1024 + 64 * 2 * 2 /\ det.x.shape[4] = 1280)
  /\ (det.pc \in {"return", "returned"}) => (det.x.shape[4] = 1024)
  /\ (det.pc = "returned") => (det.result.shape[4] = 1024)

C12_Witness ==
  /\ det.pc = "returned"
  /\ det.feature_map.shape[4] = 1024
  /\ det.rerouted_layer.shape[4] = 256
  /\ det.result.shape[4] = 1024

\* the spatial sides of rerouted and x differ
SpatialMismatch ==
  \/ det.rerouted_layer.shape[2] # det.x2.shape[2]
  \/ det.rerouted_layer.shape[3] # det.x2.shape[3]

\* C13: once the concatenation has been attempted on inputs whose spatial
\* sides differ, the call has raised ShapeError, x still holds the second
\* block's output and nothing is returned; a concatenation exists only for
\* inputs of equal spatial sides
C13_ConcatFailsOnMismatch ==
  /\ (det.rerouted_layer # NoFeature /\ SpatialMismatch /\ det.pc # "concat") =>
       /\ det.pc = "raised"
       /\ det.error = "ShapeError"
       /\ det.x = det.x2
       /\ det.result = NoFeature
  /\ (det.pc \in {"conv3", "return", "returned"}) => ~SpatialMismatch

C13_Witness ==
  /\ det.pc = "raised"
  /\ det.rerouted_layer # NoFeature
  /\ SpatialMismatch
  /\ det.result = NoFeature

\* C14: the bundle directory and the trace directory are two directories,
\* and the trace is not written into the bundle directory
C14_SeparateDirectories ==
  /\ (pc # "parse") => (export_path # TraceDir)
  /\ (summary.open /\ builder # NoBuilder) => (summary.logdir # builder.export_dir)

\* the signature every run writes
ExpectedSignature ==
  [inputs |-> ("inputs" :> [name |-> <<"image_input", 0>>]),
   outputs |-> [k \in {"detection_boxes", "detection_scores",
                        "detection_classes"} |-> [name |-> <<k, 0>>]],
   method_name |-> "tensorflow/serving/predict"]

\* C15: the signature metadata saved is one and the same value in every
\* run (so any two runs agree on it), whatever iou, threshold, output
\* directory, version and dict iteration order: the two keys, each with
\* input inputs -> image_input:0 and each output name -> its own tensor
C15_SameSignatureEveryRun ==
  (saved_model # NoMetaGraph) =>
    (saved_model.signature_def_map =
       [key \in {"predict_images", "serving_default"} |-> ExpectedSignature])

C15_Witness ==
  /\ pc = "done"
  /\ key_order = <<"detection_classes", "detection_scores", "detection_boxes">>
  /\ args.iou # DefaultIou
  /\ saved_model # NoMetaGraph

\* C16 as stated: a snapshot that exists is never changed by a later step,
\* the Loaded graph from the moment the weights are loaded included
C16_NoSnapshotChanged ==
  [][/\ (k_session.values = "trained") => (default_graph' = default_graph)
     /\ (frozen_graph_def # NoGraph) => (frozen_graph_def' = frozen_graph_def)
     /\ (quantized_graph # NoGraph) => (quantized_graph' = quantized_graph)
     /\ (export_graph # NoGraph) => (export_graph' = export_graph)]_vars

\* C16, amended: the frozen, the quantized and the imported graph are never
\* changed once they exist, and the Loaded graph is never changed once its
\* three output nodes have been added (lines 86-88, after the weights are
\* loaded)
C16_SnapshotsKeptOnceNamed ==
  [][/\ (Completed("Loaded") \in Range(trail)) => (default_graph' = default_graph)
     /\ (frozen_graph_def # NoGraph) => (frozen_graph_def' = frozen_graph_def)
     /\ (quantized_graph # NoGraph) => (quantized_graph' = quantized_graph)
     /\ (export_graph # NoGraph) => (export_graph' = export_graph)]_vars

C16_Witness ==
  /\ pc = "done"
  /\ frozen_graph_def.applied = << >>
  /\ Len(quantized_graph.applied) = 5
  /\ default_graph.variables # {}
  /\ frozen_graph_def.variables = {}

\* C17: the head's steps in order, with coarse (b, h, w, _) and fine
\* (b, fh, fw, c): x2 = (b, h, w, 1024), connected = (b, fh, fw, 64),
\* rerouted = (b, fh/2, fw/2, 256), and the concatenation, which exists
\* only when fh = 2h and fw = 2w, is (b, h, w, 1280) with the 256 rerouted
\* channels first and the 1024 channels of x second
C17_HeadShapes ==
  LET coarse == det.feature_map.shape
      fine == det.fine_grained_layers[1].shape
  IN /\ (det.x2 # NoFeature) =>
          (det.x2.shape = <<coarse[1], coarse[2], coarse[3], 1024>>)
     /\ (det.connected_layer # NoFeature) =>
          /\ det.x2 # NoFeature
          /\ det.connected_layer.shape = <<fine[1], fine[2], fine[3], 64>>
     /\ (det.rerouted_layer # NoFeature) =>
          /\ det.connected_layer # NoFeature
          /\ fine[2] % 2 = 0 /\ fine[3] % 2 = 0
          /\ det.rerouted_layer.shape =
               <<fine[1], fine[2] \div 2, fine[3] \div 2, 256>>
     /\ (det.pc = "conv3") =>
          /\ fine[2] = 2 * coarse[2] /\ fine[3] = 2 * coarse[3]
          /\ det.x.shape = <<coarse[1], coarse[2], coarse[3], 1280>>
          /\ det.x.channels = << <<"RerouteLayer", 256>>, <<"DetectConv2d_2", 1024>> >>

C17_Witness ==
  /\ det.pc = "conv3"
  /\ det.feature_map.shape = <<1, 13, 13, 1024>>
  /\ det.fine_grained_layers[1].shape = <<1, 26, 26, 512>>
  /\ det.rerouted_layer.shape = <<1, 13, 13, 256>>
  /\ det.x.shape = <<1, 13, 13, 1280>>

\* C18: the model is built with the learning phase already 0, the weights
\* are loaded into a built model, the outputs are named only after the
\* weights are loaded, and a frozen graph carries the loaded values
C18_LoadedStageOrder ==
  /\ model.built => (model.learning_phase = 0 /\ ~model.is_training)
  /\ (k_session.values = "trained") => model.built
  /\ (DOMAIN outputs # {}) => (k_session.values = "trained")
  /\ (frozen_graph_def # NoGraph) => (frozen_graph_def.values = "trained")

C18_Witness ==
  /\ pc = "quantize"
  /\ model.learning_phase = 0
  /\ frozen_graph_def.values = "trained"

\* the names line 101 and line 114 pass on
SplitNames == NodeNames(Split(output_node_names, Comma))

\* C19: once the names are joined, splitting them gives back three pieces
\* that spell exactly the three names; the frozen and the quantized graph
\* hold those three output nodes, and the signature's output keys are the
\* same set
C19_SameOutputNames ==
  /\ (pc \notin {"parse", "check", "get_session", "build", "load",
                 "name_outputs", "failed"}) =>
       /\ Len(Split(output_node_names, Comma)) = 3
       /\ SplitNames = {"detection_boxes", "detection_scores", "detection_classes"}
  /\ (frozen_graph_def # NoGraph) =>
       /\ SplitNames \subseteq frozen_graph_def.nodes
       /\ SplitNames \subseteq default_graph.nodes
  /\ (quantized_graph # NoGraph) => (SplitNames \subseteq quantized_graph.nodes)
  /\ (detection_signature # NoSignature) =>
       (DOMAIN detection_signature.outputs = SplitNames)

C19_Witness ==
  /\ pc = "done"
  /\ key_order = <<"detection_scores", "detection_classes", "detection_boxes">>
  /\ DOMAIN detection_signature.outputs = SplitNames

\* C20: the tensors handed to build_tensor_info for the signature belong to
\* the graph being packaged, not to the graph of the closed Keras session
C20_SignatureTensorsOfPackagedGraph ==
  (detection_signature # NoSignature) =>
    /\ model.inputs[1].graph # "keras"
    /\ \A k \in DOMAIN outputs : outputs[k].graph # "keras"

====
